---- MODULE Spec2Model ----
(***************************************************************************)
(* MechAI backend (src/backend/main.py): the three database-backed         *)
(* endpoints list_procedures, get_procedure and get_step, the identifier   *)
(* codec they share, the request-scoped session of get_session, and the    *)
(* tables Procedures, Steps and Procedure_Steps they read.                 *)
(*                                                                         *)
(* A Python str is a sequence of one-character strings.  An Optional       *)
(* value is a sequence of length at most one: None is <<>>, a present      *)
(* value v is <<v>>.                                                       *)
(***************************************************************************)
EXTENDS Integers, Sequences, FiniteSets

(***************************************************************************)
(* Bounds of the model.                                                    *)
(***************************************************************************)
\* requests in flight at once
NumRequests == 2
\* an identifier is a concatenation of at most MaxParts tokens
MaxParts == 4
\* encoded identifiers "<n>", "proc_<n>", "step_<n>" for n in -MaxN..MaxN
MaxN == 12
\* rows of Procedure_Steps
MaxLinks == 2
\* OrderNum ranges over 1..MaxOrderNum
MaxOrderNum == 2

None == <<>>
Some(v) == <<v>>

(***************************************************************************)
(* Python str and int operations used by the handlers.                     *)
(***************************************************************************)
Digits == <<"0", "1", "2", "3", "4", "5", "6", "7", "8", "9">>
DigitChars == {Digits[i] : i \in 1..10}
DigitVal(c) == CHOOSE d \in 0..9 : Digits[d + 1] = c

PROC == <<"p", "r", "o", "c", "_">>
STEP == <<"s", "t", "e", "p", "_">>
INSTR == <<"i", "n", "s", "t", "r", "_">>

\* str(n) for a non-negative n
RECURSIVE NatStr(_)
NatStr(n) ==
    IF n < 10 THEN <<Digits[n + 1]>>
    ELSE NatStr(n \div 10) \o <<Digits[(n % 10) + 1]>>

\* str(n), the "{n}" of an f-string
Str(n) == IF n < 0 THEN <<"-">> \o NatStr(-n) ELSE NatStr(n)

\* f"proc_{n}", f"step_{n}", f"instr_{n}"
Encode(prefix, n) == prefix \o Str(n)

\* s.startswith(p)
StartsWith(s, p) == Len(s) >= Len(p) /\ SubSeq(s, 1, Len(p)) = p

\* s.replace(old, ""): every non-overlapping occurrence of old, left to right
RECURSIVE Replace(_, _)
Replace(s, old) ==
    IF s = <<>> THEN <<>>
    ELSE IF StartsWith(s, old)
         THEN Replace(SubSeq(s, Len(old) + 1, Len(s)), old)
         ELSE <<Head(s)>> \o Replace(Tail(s), old)

\* int() ignores surrounding whitespace
RECURSIVE LStrip(_)
LStrip(s) == IF s # <<>> /\ Head(s) = " " THEN LStrip(Tail(s)) ELSE s
RECURSIVE RStrip(_)
RStrip(s) ==
    IF s # <<>> /\ s[Len(s)] = " " THEN RStrip(SubSeq(s, 1, Len(s) - 1)) ELSE s

\* the digit part of an int literal: digits, single underscores between them
IsDigitString(b) ==
    /\ Len(b) > 0
    /\ \A i \in 1..Len(b) : b[i] \in DigitChars \cup {"_"}
    /\ b[1] # "_"
    /\ b[Len(b)] # "_"
    /\ \A i \in 1..(Len(b) - 1) : ~(b[i] = "_" /\ b[i + 1] = "_")

RECURSIVE DigitsValue(_, _)
DigitsValue(b, acc) ==
    IF b = <<>> THEN acc
    ELSE IF Head(b) = "_" THEN DigitsValue(Tail(b), acc)
         ELSE DigitsValue(Tail(b), acc * 10 + DigitVal(Head(b)))

\* int(s): Some(n), or None for ValueError
ParseIntUnsigned(s) ==
    LET t == RStrip(LStrip(s))
    IN  IF IsDigitString(t) THEN Some(DigitsValue(t, 0)) ELSE None

ParseInt(s) ==
    LET t == RStrip(LStrip(s))
        signed == t # <<>> /\ Head(t) \in {"-", "+"}
        b == IF signed THEN Tail(t) ELSE t
    IN  IF ~IsDigitString(b) THEN None
        ELSE IF signed /\ Head(t) = "-" THEN Some(-DigitsValue(b, 0))
             ELSE Some(DigitsValue(b, 0))

\* the try block of get_procedure and get_step: Some(numeric_id), or None
\* when int() raises ValueError
DecodePrefixed(prefix, s) ==
    IF StartsWith(s, prefix) THEN ParseInt(Replace(s, prefix)) ELSE None

Decode(prefix, s) ==
    IF StartsWith(s, prefix) THEN ParseInt(Replace(s, prefix)) ELSE ParseInt(s)

\* Description or ""
OrEmpty(v) == IF v = None \/ v = Some("") THEN Some("") ELSE v

(***************************************************************************)
(* Tables.                                                                 *)
(***************************************************************************)
Ids == {-1, 12}
Names == {"Oil change"}
Descriptions == {None, Some(""), Some("Drain and refill")}
Titles == {"Remove plug"}
Bodies == {"Unscrew the drain plug"}
YOLOClasses == {None, Some(""), Some("wrench")}
OrderNums == 1..MaxOrderNum

ProcedureRows(ids, ds) == [ProcedureID : ids, Name : Names, Description : ds]
StepRows(ids, ys) == [StepID : ids, Title : Titles, Body : Bodies, YOLOClass : ys]
ProcedureStepRows(pids, sids) ==
    [ProcedureID : pids, StepID : sids, OrderNum : OrderNums]

\* primary keys
ProcedureKeyed(T) ==
    \A a \in T : \A b \in T : a.ProcedureID = b.ProcedureID => a = b
StepKeyed(T) == \A a \in T : \A b \in T : a.StepID = b.StepID => a = b
ProcedureStepKeyed(T) ==
    \A a \in T : \A b \in T :
        (a.ProcedureID = b.ProcedureID /\ a.StepID = b.StepID) => a = b

VARIABLES
    Procedures,       \* table Procedures
    Steps,            \* table Steps
    Procedure_Steps,  \* table Procedure_Steps
    pc,               \* where each request is
    endpoint,         \* the route of each request
    arg,              \* the path parameter procedure_id / step_id
    numeric_id,       \* local numeric_id
    procedure,        \* local procedure of get_procedure
    read_view,        \* Procedure_Steps as of the session's first statement
    response,         \* the HTTP response of each request
    session,          \* the request's Session: "none", "open", "closed"
    opened,           \* Sessions created for the request
    queries           \* the statements the request executed, in order

vars == <<Procedures, Steps, Procedure_Steps, pc, endpoint, arg, numeric_id,
          procedure, read_view, response, session, opened, queries>>
tables == <<Procedures, Steps, Procedure_Steps>>
locals == <<numeric_id, procedure, read_view>>

Requests == 1..NumRequests

NoResponse == [status |-> 0, detail |-> "", body |-> None]
Ok(obj) == [status |-> 200, detail |-> "", body |-> Some(obj)]
HTTPException(status_code, detail) ==
    [status |-> status_code, detail |-> detail, body |-> None]
\* an exception of session.exec, left to the framework
ServerError == [status |-> 500, detail |-> "Internal Server Error", body |-> None]

QueryPcs == {"list", "proc_lookup", "proc_steps", "step_lookup"}
TableRead(p) ==
    IF p \in {"list", "proc_lookup"} THEN "Procedures"
    ELSE IF p = "proc_steps" THEN "Procedure_Steps"
    ELSE "Steps"

(***************************************************************************)
(* Queries and response models.                                            *)
(***************************************************************************)
RECURSIVE Perms(_)
Perms(S) ==
    IF S = {} THEN {<<>>}
    ELSE UNION {{<<x>> \o p : p \in Perms(S \ {x})} : x \in S}

\* .all() of a select without order_by: the rows in the engine's order
All(rows) == Perms(rows)

\* .first() of a select by primary key
First(rows) == IF rows = {} THEN None ELSE Some(CHOOSE x \in rows : TRUE)

\* .where(ProcedureStep.ProcedureID == numeric_id)
WhereOrderNum(T, n) == {ps \in T : ps.OrderNum = n}
WhereProcedureID(T, n) == {ps \in T : ps.ProcedureID = n}

\* .order_by(ProcedureStep.OrderNum).all(): ascending, ties in the engine's order
Unordered(rows) == Perms(rows)
OrderBy(rows) ==
    {q \in Perms(rows) :
        \A i \in 1..(Len(q) - 1) : q[i].OrderNum <= q[i + 1].OrderNum}

\* select(Procedure): no filter
SelectDescribed(T) == {p \in T : p.Description # None}
SelectAll(T) == T

ProcedureListResponse(proc) ==
    [id |-> Encode(PROC, proc.ProcedureID),
     title |-> proc.Name,
     description |-> OrEmpty(proc.Description)]

StepInProcedureResponse(ps) ==
    [id |-> Encode(STEP, ps.StepID),
     instruction_id |-> Encode(INSTR, ps.StepID),
     order |-> ps.OrderNum]

ProcedureDetailResponse(proc, steps) ==
    [id |-> Encode(PROC, proc.ProcedureID),
     title |-> proc.Name,
     description |-> OrEmpty(proc.Description),
     steps |-> steps]

StepDetailCoalesced(step) ==
    [id |-> Encode(STEP, step.StepID),
     title |-> step.Title,
     body |-> step.Body,
     yolo_class |-> OrEmpty(step.YOLOClass)]

StepDetailResponse(step) ==
    [id |-> Encode(STEP, step.StepID),
     title |-> step.Title,
     body |-> step.Body,
     yolo_class |-> step.YOLOClass]

\* raise HTTPException(status_code=404, ...) of the except ValueError branch
BadRequest(detail) == HTTPException(400, "Invalid id")
DecodeFailure(detail) == HTTPException(404, detail)
\* raise HTTPException(status_code=404, ...) of the missing row
RowMissing(detail) == HTTPException(404, detail)

\* leaving the with block of get_session, on return and on exception alike
CloseOnReturnOnly(status, s) == IF status = 200 THEN "closed" ELSE s
SessionExit(status, s) == "closed"

(***************************************************************************)
(* Init: no request has arrived.                                           *)
(***************************************************************************)
InitRequests ==
    /\ pc = [r \in Requests |-> "idle"]
    /\ endpoint = [r \in Requests |-> "none"]
    /\ arg = [r \in Requests |-> <<>>]
    /\ numeric_id = [r \in Requests |-> None]
    /\ procedure = [r \in Requests |-> None]
    /\ read_view = [r \in Requests |-> {}]
    /\ response = [r \in Requests |-> NoResponse]
    /\ session = [r \in Requests |-> "none"]
    /\ opened = [r \in Requests |-> 0]
    /\ queries = [r \in Requests |-> <<>>]

(***************************************************************************)
(* A request arrives: the route is matched and Depends(get_session) enters *)
(* the with block before the handler body runs.                            *)
(***************************************************************************)
get_session(r, calls) ==
    /\ pc[r] = "idle"
    /\ \E c \in calls :
          /\ endpoint' = [endpoint EXCEPT ![r] = c[1]]
          /\ arg' = [arg EXCEPT ![r] = c[2]]
          /\ pc' = [pc EXCEPT ![r] =
                      IF c[1] = "list_procedures" THEN "list"
                      ELSE IF c[1] = "get_procedure" THEN "proc_decode"
                      ELSE "step_decode"]
    /\ session' = [session EXCEPT ![r] = "open"]
    /\ opened' = [opened EXCEPT ![r] = @ + 1]
    /\ UNCHANGED <<tables, locals, response, queries>>

\* the generator resumes after the handler returned or raised
get_session_exit(r) ==
    /\ pc[r] = "exit"
    /\ session' = [session EXCEPT ![r] = SessionExit(response[r].status, @)]
    /\ pc' = [pc EXCEPT ![r] = "done"]
    /\ UNCHANGED <<tables, locals, endpoint, arg, response, opened, queries>>

(***************************************************************************)
(* list_procedures                                                         *)
(***************************************************************************)
list_procedures(r) ==
    /\ pc[r] = "list"
    /\ queries' = [queries EXCEPT ![r] = Append(@, "Procedures")]
    /\ \E procedures \in All(SelectAll(Procedures)) :
          response' = [response EXCEPT ![r] =
              Ok([i \in 1..Len(procedures) |->
                      ProcedureListResponse(procedures[i])])]
    /\ pc' = [pc EXCEPT ![r] = "exit"]
    /\ UNCHANGED <<tables, locals, endpoint, arg, session, opened>>

(***************************************************************************)
(* get_procedure                                                           *)
(***************************************************************************)
get_procedure_decode(r) ==
    /\ pc[r] = "proc_decode"
    /\ LET n == Decode(PROC, arg[r])
       IN  IF n = None
           THEN /\ response' = [response EXCEPT ![r] =
                                   DecodeFailure("Procedure not found")]
                /\ pc' = [pc EXCEPT ![r] = "exit"]
                /\ UNCHANGED numeric_id
           ELSE /\ numeric_id' = [numeric_id EXCEPT ![r] = n]
                /\ pc' = [pc EXCEPT ![r] = "proc_lookup"]
                /\ UNCHANGED response
    /\ UNCHANGED <<tables, procedure, read_view, endpoint, arg, session,
                   opened, queries>>

get_procedure_lookup_retry(r) ==
    /\ pc[r] = "proc_lookup"
    /\ queries' = [queries EXCEPT ![r] = @ \o <<"Procedures", "Procedures">>]
    /\ LET found == First({p \in Procedures : p.ProcedureID = numeric_id[r][1]})
       IN  IF found = None
           THEN /\ response' = [response EXCEPT ![r] =
                                   RowMissing("Procedure not found")]
                /\ pc' = [pc EXCEPT ![r] = "exit"]
                /\ UNCHANGED <<procedure, read_view>>
           ELSE /\ procedure' = [procedure EXCEPT ![r] = found]
                /\ read_view' = [read_view EXCEPT ![r] = Procedure_Steps]
                /\ pc' = [pc EXCEPT ![r] = "proc_steps"]
                /\ UNCHANGED response
    /\ UNCHANGED <<tables, numeric_id, endpoint, arg, session, opened>>

\* the first statement of the session: it begins the session's transaction
get_procedure_lookup(r) ==
    /\ pc[r] = "proc_lookup"
    /\ queries' = [queries EXCEPT ![r] = Append(@, "Procedures")]
    /\ LET found == First({p \in Procedures : p.ProcedureID = numeric_id[r][1]})
       IN  IF found = None
           THEN /\ response' = [response EXCEPT ![r] =
                                   RowMissing("Procedure not found")]
                /\ pc' = [pc EXCEPT ![r] = "exit"]
                /\ UNCHANGED <<procedure, read_view>>
           ELSE /\ procedure' = [procedure EXCEPT ![r] = found]
                /\ read_view' = [read_view EXCEPT ![r] = Procedure_Steps]
                /\ pc' = [pc EXCEPT ![r] = "proc_steps"]
                /\ UNCHANGED response
    /\ UNCHANGED <<tables, numeric_id, endpoint, arg, session, opened>>

\* The second statement runs in the same transaction.  The code sets no
\* isolation level: the server either reads the transaction's snapshot
\* (read_view) or the table as it is now.
get_procedure_steps(r) ==
    /\ pc[r] = "proc_steps"
    /\ queries' = [queries EXCEPT ![r] = Append(@, "Procedure_Steps")]
    /\ \E view \in {read_view[r], Procedure_Steps} :
       \E procedure_steps \in OrderBy(WhereProcedureID(view, numeric_id[r][1])) :
          response' = [response EXCEPT ![r] =
              Ok(ProcedureDetailResponse(procedure[r][1],
                     [i \in 1..Len(procedure_steps) |->
                         StepInProcedureResponse(procedure_steps[i])]))]
    /\ pc' = [pc EXCEPT ![r] = "exit"]
    /\ UNCHANGED <<tables, locals, endpoint, arg, session, opened>>

(***************************************************************************)
(* get_step                                                                *)
(***************************************************************************)
get_step_decode(r) ==
    /\ pc[r] = "step_decode"
    /\ LET n == Decode(STEP, arg[r])
       IN  IF n = None
           THEN /\ response' = [response EXCEPT ![r] =
                                   DecodeFailure("Step not found")]
                /\ pc' = [pc EXCEPT ![r] = "exit"]
                /\ UNCHANGED numeric_id
           ELSE /\ numeric_id' = [numeric_id EXCEPT ![r] = n]
                /\ pc' = [pc EXCEPT ![r] = "step_lookup"]
                /\ UNCHANGED response
    /\ UNCHANGED <<tables, procedure, read_view, endpoint, arg, session,
                   opened, queries>>

get_step_lookup(r) ==
    /\ pc[r] = "step_lookup"
    /\ queries' = [queries EXCEPT ![r] = Append(@, "Steps")]
    /\ LET step == First({s \in Steps : s.StepID = numeric_id[r][1]})
       IN  response' = [response EXCEPT ![r] =
               IF step = None THEN RowMissing("Step not found")
               ELSE Ok(StepDetailResponse(step[1]))]
    /\ pc' = [pc EXCEPT ![r] = "exit"]
    /\ UNCHANGED <<tables, locals, endpoint, arg, session, opened>>

(***************************************************************************)
(* session.exec raises (connection or driver fault): no handler catches    *)
(* it, the framework answers 500.                                          *)
(***************************************************************************)
query_fault(r) ==
    /\ pc[r] \in QueryPcs
    /\ queries' = [queries EXCEPT ![r] = Append(@, TableRead(pc[r]))]
    /\ response' = [response EXCEPT ![r] = ServerError]
    /\ pc' = [pc EXCEPT ![r] = "exit"]
    /\ UNCHANGED <<tables, locals, endpoint, arg, session, opened>>

Handler(r) ==
    \/ list_procedures(r)
    \/ get_procedure_decode(r)
    \/ get_procedure_lookup(r)
    \/ get_procedure_steps(r)
    \/ get_step_decode(r)
    \/ get_step_lookup(r)
    \/ query_fault(r)
    \/ get_session_exit(r)

(***************************************************************************)
(* External writers.  The service has no write endpoint; rows are created  *)
(* and deleted by others, under the schema's primary and foreign keys.     *)
(***************************************************************************)
InsertProcedure(row) ==
    /\ \A p \in Procedures : p.ProcedureID # row.ProcedureID
    /\ Procedures' = Procedures \cup {row}
    /\ UNCHANGED <<Steps, Procedure_Steps, pc, endpoint, arg, locals, response,
                   session, opened, queries>>

DeleteProcedure(row) ==
    /\ row \in Procedures
    /\ \A ps \in Procedure_Steps : ps.ProcedureID # row.ProcedureID
    /\ Procedures' = Procedures \ {row}
    /\ UNCHANGED <<Steps, Procedure_Steps, pc, endpoint, arg, locals, response,
                   session, opened, queries>>

InsertStep(row) ==
    /\ \A s \in Steps : s.StepID # row.StepID
    /\ Steps' = Steps \cup {row}
    /\ UNCHANGED <<Procedures, Procedure_Steps, pc, endpoint, arg, locals,
                   response, session, opened, queries>>

DeleteStep(row) ==
    /\ row \in Steps
    /\ \A ps \in Procedure_Steps : ps.StepID # row.StepID
    /\ Steps' = Steps \ {row}
    /\ UNCHANGED <<Procedures, Procedure_Steps, pc, endpoint, arg, locals,
                   response, session, opened, queries>>

InsertProcedureStep(row) ==
    /\ Cardinality(Procedure_Steps) < MaxLinks
    /\ \E p \in Procedures : p.ProcedureID = row.ProcedureID
    /\ \E s \in Steps : s.StepID = row.StepID
    /\ \A ps \in Procedure_Steps :
          ps.ProcedureID # row.ProcedureID \/ ps.StepID # row.StepID
    /\ Procedure_Steps' = Procedure_Steps \cup {row}
    /\ UNCHANGED <<Procedures, Steps, pc, endpoint, arg, locals, response,
                   session, opened, queries>>

DeleteProcedureStep(row) ==
    /\ row \in Procedure_Steps
    /\ Procedure_Steps' = Procedure_Steps \ {row}
    /\ UNCHANGED <<Procedures, Steps, pc, endpoint, arg, locals, response,
                   session, opened, queries>>

(***************************************************************************)
(* The databases over a set of ids: every state of the three tables that   *)
(* the primary and foreign keys allow, with at most maxLinks links.        *)
(***************************************************************************)
DBs(ids, ds, ys, maxLinks) ==
    {db \in [P : {T \in SUBSET ProcedureRows(ids, ds) : ProcedureKeyed(T)},
             S : {T \in SUBSET StepRows(ids, ys) : StepKeyed(T)},
             L : SUBSET ProcedureStepRows(ids, ids)] :
        /\ Cardinality(db.L) <= maxLinks
        /\ ProcedureStepKeyed(db.L)
        /\ \A ps \in db.L :
              /\ \E p \in db.P : p.ProcedureID = ps.ProcedureID
              /\ \E s \in db.S : s.StepID = ps.StepID}

InitTables(dbs) ==
    \E db \in dbs :
        /\ Procedures = db.P
        /\ Steps = db.S
        /\ Procedure_Steps = db.L

(***************************************************************************)
(* Path parameters.                                                        *)
(***************************************************************************)
Tokens == {PROC, STEP, <<"1">>, <<"2">>, <<"-">>, <<"_">>, <<"a">>}

RECURSIVE Words(_)
Words(k) ==
    IF k = 0 THEN {<<>>}
    ELSE LET W == Words(k - 1) IN W \cup {w \o t : w \in W, t \in Tokens}

Encoded(N) ==
    {Str(n) : n \in N} \cup {Encode(PROC, n) : n \in N}
        \cup {Encode(STEP, n) : n \in N}

Identifiers == Words(MaxParts) \cup Encoded((-MaxN)..MaxN)

\* the ids of the tables, one id of no row, and one identifier int() rejects
FewIdentifiers == Encoded(Ids \cup {1}) \cup {<<"a", "b", "c">>}

Calls(S) ==
    {<<"list_procedures", <<>>>>}
        \cup {<<ep, s>> : ep \in {"get_procedure", "get_step"}, s \in S}

(***************************************************************************)
(* Spec: concurrent requests and external writers over one id.             *)
(***************************************************************************)
ConcIds == {12}
ConcCalls ==
    {<<"list_procedures", <<>>>>,
     <<"get_procedure", Encode(PROC, 12)>>,
     <<"get_procedure", <<"a", "b", "c">>>>,
     <<"get_step", Encode(STEP, 12)>>}

Init ==
    /\ InitRequests
    /\ Procedures = {}
    /\ Steps = {}
    /\ Procedure_Steps = {}

Next ==
    \/ \E r \in Requests : get_session(r, ConcCalls)
    \/ \E r \in Requests : Handler(r)
    \/ \E row \in ProcedureRows(ConcIds, {None}) : InsertProcedure(row)
    \/ \E row \in ProcedureRows(ConcIds, {None}) : DeleteProcedure(row)
    \/ \E row \in StepRows(ConcIds, {None}) : InsertStep(row)
    \/ \E row \in StepRows(ConcIds, {None}) : DeleteStep(row)
    \/ \E row \in ProcedureStepRows(ConcIds, ConcIds) : InsertProcedureStep(row)
    \/ \E row \in ProcedureStepRows(ConcIds, ConcIds) : DeleteProcedureStep(row)

Spec == Init /\ [][Next]_vars

(***************************************************************************)
(* SpecStatic: one request against every database over Ids; no writer.     *)
(***************************************************************************)
InitStatic ==
    /\ InitRequests
    /\ InitTables(DBs(Ids, Descriptions, YOLOClasses, MaxLinks))

NextStatic ==
    \/ get_session(1, Calls(FewIdentifiers))
    \/ Handler(1)

SpecStatic == InitStatic /\ [][NextStatic]_vars

(***************************************************************************)
(* SpecCodec: one request with every identifier, against the databases     *)
(* that hold row 12 or not.                                                *)
(***************************************************************************)
InitCodec ==
    /\ InitRequests
    /\ InitTables(DBs({12}, {None}, {None}, 0))

NextCodec ==
    \/ get_session(1, {"get_procedure", "get_step"} \X Identifiers)
    \/ get_procedure_decode(1)
    \/ get_procedure_lookup(1)
    \/ get_procedure_steps(1)
    \/ get_step_decode(1)
    \/ get_step_lookup(1)
    \/ query_fault(1)
    \/ get_session_exit(1)

SpecCodec == InitCodec /\ [][NextCodec]_vars

(***************************************************************************)
(* Properties.                                                             *)
(***************************************************************************)
Finished(r, ep) == pc[r] = "done" /\ endpoint[r] = ep
Faulted(r) == response[r].status = 500
Succeeded(r) == response[r].status = 200
ProcedureNotFound == [status |-> 404, detail |-> "Procedure not found", body |-> <<>>]
StepNotFound == [status |-> 404, detail |-> "Step not found", body |-> <<>>]
PrefixOf(ep) == IF ep = "get_procedure" THEN PROC ELSE STEP
NotFoundOf(ep) == IF ep = "get_procedure" THEN ProcedureNotFound ELSE StepNotFound

\* the identifier without its leading prefix, if it has one
StripLeading(prefix, s) ==
    IF StartsWith(s, prefix) THEN SubSeq(s, Len(prefix) + 1, Len(s)) ELSE s

\* steps is one entry per row of T with ProcedureID n, in ascending order
StepsAre(steps, T, n) ==
    LET rows == {ps \in T : ps.ProcedureID = n}
    IN  /\ Len(steps) = Cardinality(rows)
        /\ \A ps \in rows : \E i \in 1..Len(steps) :
              /\ steps[i].id = STEP \o Str(ps.StepID)
              /\ steps[i].instruction_id = INSTR \o Str(ps.StepID)
              /\ steps[i].order = ps.OrderNum
        /\ \A i \in 1..(Len(steps) - 1) : steps[i].order <= steps[i + 1].order

\* C1: an identifier whose remainder, after only a leading prefix is
\* stripped, is not an integer literal ends in the resource's 404 and
\* returns no row (a fault of the query apart).
C1_UnparsedIsNotFound ==
    \A r \in Requests :
        (/\ pc[r] = "done"
         /\ endpoint[r] \in {"get_procedure", "get_step"}
         /\ ParseInt(StripLeading(PrefixOf(endpoint[r]), arg[r])) = None
         /\ ~Faulted(r))
        => response[r] = NotFoundOf(endpoint[r])

\* C4: once "proc_<n>" (get_procedure) or "step_<n>" (get_step) is
\* decoded, numeric_id is n, for every n in -MaxN..MaxN.
C4_DecodeEncode ==
    \A r \in Requests : \A n \in (-MaxN)..MaxN :
        (/\ endpoint[r] \in {"get_procedure", "get_step"}
         /\ arg[r] = PrefixOf(endpoint[r]) \o Str(n)
         /\ pc[r] \notin {"idle", "proc_decode", "step_decode"})
        => numeric_id[r] = <<n>>

C4_Witness ==
    \E r \in Requests :
        /\ pc[r] = "done"
        /\ endpoint[r] = "get_procedure"
        /\ arg[r] = <<"p", "r", "o", "c", "_", "-", "1", "0">>
        /\ numeric_id[r] = <<-10>>

\* C2: the steps of a get_procedure success are one entry per
\* Procedure_Steps row of that procedure and of no other, in non-decreasing
\* OrderNum, each with id "step_<StepID>", instruction_id "instr_<StepID>"
\* and order OrderNum.
C2_StepsOfProcedure ==
    \A r \in Requests :
        (Finished(r, "get_procedure") /\ Succeeded(r))
        => /\ \E p \in Procedures : p.ProcedureID = numeric_id[r][1]
           /\ StepsAre(response[r].body[1].steps, Procedure_Steps,
                       numeric_id[r][1])

C2_Witness ==
    \E r \in Requests :
        /\ Finished(r, "get_procedure")
        /\ Succeeded(r)
        /\ Len(response[r].body[1].steps) = 2
        /\ response[r].body[1].steps[1].order < response[r].body[1].steps[2].order

\* C3: an identifier that does not decode and a decoded id of no row end
\* alike: 404 with the resource's detail and no part of a success response.
C3_SameNotFound ==
    \A r \in Requests :
        /\ (Finished(r, "get_procedure") /\ ~Faulted(r)
              /\ (\/ numeric_id[r] = None
                  \/ \A p \in Procedures : <<p.ProcedureID>> # numeric_id[r]))
           => response[r] = ProcedureNotFound
        /\ (Finished(r, "get_step") /\ ~Faulted(r)
              /\ (\/ numeric_id[r] = None
                  \/ \A s \in Steps : <<s.StepID>> # numeric_id[r]))
           => response[r] = StepNotFound

C3_Witness ==
    \E r \in Requests :
        /\ Finished(r, "get_procedure")
        /\ arg[r] = <<"a", "b", "c">>
        /\ numeric_id[r] = None
        /\ response[r] = ProcedureNotFound

\* C5: description is never null in a list_procedures or get_procedure
\* response (a stored null is "", any other value is unchanged); yolo_class
\* of a get_step response is the stored YOLOClass, null included.
C5_NullCoalescing ==
    \A r \in Requests :
        /\ (Finished(r, "list_procedures") /\ Succeeded(r))
           => \A i \in 1..Len(response[r].body[1]) :
                 LET e == response[r].body[1][i]
                 IN  /\ e.description # None
                     /\ \E p \in Procedures :
                           /\ e.id = PROC \o Str(p.ProcedureID)
                           /\ e.description =
                                 IF p.Description = None THEN <<"">>
                                 ELSE p.Description
        /\ (Finished(r, "get_procedure") /\ Succeeded(r))
           => LET e == response[r].body[1]
              IN  /\ e.description # None
                  /\ \E p \in Procedures :
                        /\ <<p.ProcedureID>> = numeric_id[r]
                        /\ e.description =
                              IF p.Description = None THEN <<"">>
                              ELSE p.Description
        /\ (Finished(r, "get_step") /\ Succeeded(r))
           => \E s \in Steps :
                 /\ <<s.StepID>> = numeric_id[r]
                 /\ response[r].body[1].yolo_class = s.YOLOClass

C5_Witness ==
    \E r \in Requests :
        /\ Finished(r, "get_step")
        /\ Succeeded(r)
        /\ response[r].body[1].yolo_class = None
        /\ \E p \in Procedures : p.Description = None

\* C7: list_procedures, unless its query faults, answers 200 with one
\* entry per Procedures row (id "proc_<ProcedureID>", title Name) and no
\* other entry; on an empty table the empty array.
C7_ListsEveryProcedure ==
    \A r \in Requests :
        (Finished(r, "list_procedures") /\ ~Faulted(r))
        => /\ Succeeded(r)
           /\ Len(response[r].body[1]) = Cardinality(Procedures)
           /\ \A p \in Procedures : \E i \in 1..Len(response[r].body[1]) :
                 /\ response[r].body[1][i].id = PROC \o Str(p.ProcedureID)
                 /\ response[r].body[1][i].title = p.Name

C7_Witness ==
    \E r \in Requests :
        /\ Finished(r, "list_procedures")
        /\ Procedures = {}
        /\ response[r] = [status |-> 200, detail |-> "", body |-> << <<>> >>]

\* C9: "<n>" and "proc_<n>" (get_step: "step_<n>") end alike: the outcome
\* is that of the row with key n, whichever form was sent, and the id of a
\* success is "proc_<n>" ("step_<n>").
C9_PrefixOptional ==
    \A r \in Requests : \A n \in Ids \cup {1} :
        /\ (Finished(r, "get_procedure") /\ ~Faulted(r)
              /\ arg[r] \in {Str(n), PROC \o Str(n)})
           => IF \A p \in Procedures : p.ProcedureID # n
              THEN response[r] = ProcedureNotFound
              ELSE /\ Succeeded(r)
                   /\ response[r].body[1].id = PROC \o Str(n)
                   /\ \E p \in Procedures :
                         /\ p.ProcedureID = n
                         /\ response[r].body[1].title = p.Name
                   /\ StepsAre(response[r].body[1].steps, Procedure_Steps, n)
        /\ (Finished(r, "get_step") /\ ~Faulted(r)
              /\ arg[r] \in {Str(n), STEP \o Str(n)})
           => IF \A s \in Steps : s.StepID # n
              THEN response[r] = StepNotFound
              ELSE /\ Succeeded(r)
                   /\ response[r].body[1].id = STEP \o Str(n)
                   /\ \E s \in Steps :
                         /\ s.StepID = n
                         /\ response[r].body[1].title = s.Title
                         /\ response[r].body[1].body = s.Body

C9_Witness ==
    \E r \in Requests :
        /\ Finished(r, "get_procedure")
        /\ arg[r] = <<"-", "1">>
        /\ Succeeded(r)
        /\ response[r].body[1].id = <<"p", "r", "o", "c", "_", "-", "1">>

\* C6: a request holds exactly one session from its arrival on, the
\* session is closed when the request is done, whatever its exit (success,
\* 404 of the decode, 404 of the missing row, query fault), and once every
\* request that arrived is done no session is open.
C6_SessionReleased ==
    /\ \A r \in Requests :
          /\ opened[r] = (IF pc[r] = "idle" THEN 0 ELSE 1)
          /\ pc[r] = "done" => session[r] = "closed"
          /\ session[r] = "open" => pc[r] \notin {"idle", "done"}
    /\ (\A r \in Requests : pc[r] \in {"idle", "done"})
       => \A r \in Requests : session[r] # "open"

C6_Witness ==
    /\ pc[1] = "done" /\ Faulted(1) /\ session[1] = "closed"
    /\ pc[2] = "done" /\ numeric_id[2] = None
    /\ response[2].status = 404 /\ session[2] = "closed"

\* C8: get_procedure reads Procedures first and Procedure_Steps only after
\* that lookup found a row, two statements at most; get_step and
\* list_procedures execute one statement at most; a request whose
\* identifier did not decode executes none; no statement is repeated.
C8_QueryOrder ==
    \A r \in Requests :
        /\ endpoint[r] = "none" => queries[r] = <<>>
        /\ endpoint[r] = "list_procedures"
           => queries[r] \in {<<>>, <<"Procedures">>}
        /\ endpoint[r] = "get_step" => queries[r] \in {<<>>, <<"Steps">>}
        /\ endpoint[r] = "get_procedure"
           => /\ queries[r] \in {<<>>, <<"Procedures">>,
                                 <<"Procedures", "Procedure_Steps">>}
              /\ Len(queries[r]) = 2 => procedure[r] # None
        /\ (endpoint[r] \in {"get_procedure", "get_step"}
              /\ numeric_id[r] = None)
           => queries[r] = <<>>
        /\ pc[r] \in {"list", "proc_lookup", "step_lookup"} => queries[r] = <<>>

C8_Witness ==
    \E r \in Requests : \E q \in Requests :
        /\ Finished(r, "get_procedure")
        /\ queries[r] = <<"Procedures", "Procedure_Steps">>
        /\ Finished(q, "get_procedure")
        /\ numeric_id[q] = None
        /\ response[q] = ProcedureNotFound
        /\ queries[q] = <<>>

\* C10 as claimed: the steps of a get_procedure success are those of the
\* state of the database in which its procedure was looked up.
C10_OneInstant ==
    \A r \in Requests :
        (endpoint[r] = "get_procedure" /\ pc[r] \in {"exit", "done"}
           /\ Succeeded(r))
        => StepsAre(response[r].body[1].steps, read_view[r], numeric_id[r][1])

\* C10 as amended: the procedure fields of a get_procedure success are those
\* of the state at the Procedures lookup; its steps are those of that state
\* or of the state at the Procedure_Steps query.
C10_TwoInstants ==
    [][\A r \in Requests :
          /\ (pc[r] = "proc_lookup" /\ pc'[r] = "proc_steps")
             => /\ procedure'[r][1] \in Procedures
                /\ procedure'[r][1].ProcedureID = numeric_id[r][1]
                /\ read_view'[r] = Procedure_Steps
          /\ (pc[r] = "proc_steps" /\ response'[r].status = 200)
             => /\ response'[r].body[1].id = PROC \o Str(procedure[r][1].ProcedureID)
                /\ response'[r].body[1].title = procedure[r][1].Name
                /\ \/ StepsAre(response'[r].body[1].steps, read_view[r],
                               numeric_id[r][1])
                   \/ StepsAre(response'[r].body[1].steps, Procedure_Steps,
                               numeric_id[r][1])]_vars

\* a success whose steps are not those of the state its procedure was read in
C10_Witness ==
    \E r \in Requests :
        /\ Finished(r, "get_procedure")
        /\ Succeeded(r)
        /\ read_view[r] # {}
        /\ response[r].body[1].steps = <<>>

====
